---- MODULE Spec2Model ----
(***************************************************************************)
(* The "saved locations" REST service of src/server.js and of the earlier  *)
(* revision src/unnamed/part_000: two mongoose collections (users,         *)
(* locations) and the express handlers over them.                          *)
(*                                                                         *)
(* Four specifications:                                                    *)
(*   Spec            every handler runs to completion (one action each);   *)
(*   SpecFaults      the same, and any store round trip may throw;         *)
(*   SpecAccounts    signup and signin alone, with their store failures;   *)
(*   SpecConcurrent  the owner's requests against server.js, where the     *)
(*                   delete and edit handlers are split between their      *)
(*                   ownership lookup and their write, so that other       *)
(*                   requests interleave between the two round trips.      *)
(***************************************************************************)
EXTENDS Integers, Sequences, FiniteSets, TLC

VARIABLES
    revision,     \* which file is deployed: "server.js" or "part_000"
    strictQuery,  \* mongoose's treatment of a filter path the schema lacks
    users,        \* the users collection
    locations,    \* the locations collection
    nextLocId,    \* number of Location documents ever inserted (ObjectIds are fresh)
    inflight,     \* per connection slot: a suspended delete/edit handler
    last,         \* the request answered (or abandoned) last, with its response
    registered,   \* history: what each successful signup returned
    created,      \* history: id and owner of every Location ever inserted
    deleted       \* history: ids of the Locations removed

vars == <<revision, strictQuery, users, locations, nextLocId, inflight, last,
          registered, created, deleted>>

-----------------------------------------------------------------------------
(* Bounds of the model                                                     *)
MaxLocations == 2
MaxInFlight == 2
MaxTime == 1

(* Request inputs                                                          *)
Missing == "undefined"
Usernames == {"alice", "bob"}
Passwords == {"passwor", "password"}
Salts == {"$2b$10$salt"}
Park == [title |-> "Park", location |-> "Main St", tag |-> "outdoor"]
Cafe == [title |-> "Cafe", location |-> "High St", tag |-> "food"]
NoTitle == [title |-> Missing, location |-> "Main St", tag |-> "outdoor"]
EmptyBody == [title |-> Missing, location |-> Missing, tag |-> Missing]
EditBodies == {Cafe}
CreateBodies == {Park, NoTitle}
Slots == 1..MaxInFlight
Times == 0..MaxTime
RequestIds == 0..MaxLocations
LocationIds == 1..MaxLocations

(* The Authorization header: absent, a string that is no token, or a token *)
NoHeader == <<"undefined", 0>>
BogusToken == <<"hex", 0>>

Revisions == {"server.js", "part_000"}

-----------------------------------------------------------------------------
(* crypto.randomBytes(128).toString("hex"): the n-th value drawn is fresh  *)
RandomToken(n) == <<"hex", n>>

(* bcrypt: the hash carries its salt and a digest of (salt, password)      *)
HashSync(password, salt) == [salt |-> salt, digest |-> <<salt, password>>]

CompareSync_IgnoresPassword(password, hash) == hash.salt \in Salts

CompareSync(password, hash) == HashSync(password, hash.salt) = hash

PasswordTooShort_OffByOne(password) == Len(password) < 7

PasswordTooShort(password) == Len(password) < 8

(* User.findOne({ username }) and User.findOne({ accessToken }): an         *)
(* undefined value is sent as null, which no stored user has.              *)
FindUserByUsername_Any(username) == users

FindUserByUsername(username) == {u \in users : u.username = username}

FindUserByToken_UndefinedMatchesAll(header) ==
    IF header = NoHeader THEN users ELSE {u \in users : u.accessToken = header}

FindUserByToken(header) == {u \in users : u.accessToken = header}

(* the unique index on username                                            *)
UsernameTaken(username) == \E u \in users : u.username = username

(* The response projection of a User                                       *)
PublicUser(u) ==
    IF revision = "server.js"
    THEN [username |-> u.username, accessToken |-> u.accessToken, id |-> u._id]
    ELSE [username |-> u.username, accessToken |-> u.accessToken, userId |-> u._id]

(* A route parameter casts to an ObjectId or findById* throws a CastError  *)
IsObjectId(id) == id >= 1

(* Location.findOne({ id, user }): the schema has no path "id" (the        *)
(* identifier is stored as _id).  With strictQuery the path is stripped    *)
(* from the filter, without it the filter is sent as written and is        *)
(* compared with a stored field "id" that no document has.                 *)
MatchesIdPath(l, id) ==
    IF strictQuery THEN TRUE ELSE ("id" \in DOMAIN l) /\ l["id"] = id

FindOwned(id, uid) == {l \in locations : MatchesIdPath(l, id) /\ l.user = uid}

FindByOwner(uid) == {l \in locations : l.user = uid}

(* .sort({createdAt: 'desc'}): newest first; documents with equal          *)
(* createdAt keep the collection's natural (insertion) order.              *)
RECURSIVE SortDesc(_)
SortDesc(S) ==
    IF S = {} THEN <<>>
    ELSE LET first == CHOOSE l \in S : \A m \in S :
                          \/ l.createdAt > m.createdAt
                          \/ (l.createdAt = m.createdAt /\ l._id <= m._id)
         IN <<first>> \o SortDesc(S \ {first})

RECURSIVE SortAsc(_)
SortAsc(S) ==
    IF S = {} THEN <<>>
    ELSE LET first == CHOOSE l \in S : \A m \in S :
                          \/ l.createdAt < m.createdAt
                          \/ (l.createdAt = m.createdAt /\ l._id <= m._id)
         IN <<first>> \o SortAsc(S \ {first})

SortedLocations_Ascending(S) == SortAsc(S)

SortedLocations(S) == SortDesc(S)

(* new Date(): the clock never runs backwards.  Only the order of the      *)
(* timestamps is observed, so between two inserts it stays in the same     *)
(* tick or moves on by one.                                                *)
LatestCreatedAt ==
    IF locations = {} THEN 0
    ELSE CHOOSE t \in Times : (\E l \in locations : l.createdAt = t)
                              /\ \A l \in locations : l.createdAt <= t

Now == {t \in Times : t >= LatestCreatedAt /\ t <= LatestCreatedAt + 1}

SchemaValid(body) == body.title # Missing /\ body.location # Missing

-----------------------------------------------------------------------------
(* Requests and responses                                                  *)
Request(route, header, username, password, id, body) ==
    [route |-> route, header |-> header, username |-> username,
     password |-> password, id |-> id, body |-> body]

Message(text) == [kind |-> "message", text |-> text, items |-> <<>>]
ErrorBody == [kind |-> "error", text |-> "", items |-> <<>>]
DocBody(d) == [kind |-> "doc", text |-> "", items |-> <<d>>]
NullBody == [kind |-> "null", text |-> "", items |-> <<>>]
ListBody(seq) == [kind |-> "list", text |-> "", items |-> seq]
UserBody(u) == [kind |-> "user", text |-> "", items |-> <<PublicUser(u)>>]

(* What is recorded about a request besides its response: whether the     *)
(* handler behind the gate ran, whether it called the Location model,      *)
(* whether a store round trip threw, the user the token resolved to, the   *)
(* document its :id named and whether that id had been removed when the    *)
(* handler looked, and the documents it removed or replaced.               *)
NoGhost == [ran |-> FALSE, touched |-> FALSE, fault |-> FALSE, caller |-> {},
            target |-> {}, gone |-> FALSE, removed |-> {}]

(* res.status(status).json({success, <key>: body})                         *)
Answer(req, status, success, key, body, g) ==
    [req |-> req, status |-> status, success |-> success, key |-> key,
     body |-> body, nresp |-> 1, ran |-> g.ran, touched |-> g.touched,
     fault |-> g.fault, caller |-> g.caller, target |-> g.target,
     gone |-> g.gone, removed |-> g.removed]

(* the handler's promise is rejected and express never answers             *)
Unanswered(req, g) ==
    [req |-> req, status |-> 0, success |-> FALSE, key |-> "", body |-> NullBody,
     nresp |-> 0, ran |-> g.ran, touched |-> g.touched,
     fault |-> g.fault, caller |-> g.caller, target |-> g.target,
     gone |-> g.gone, removed |-> g.removed]

NoRequest == Request("none", NoHeader, Missing, Missing, 0, EmptyBody)
Idle == [pc |-> "idle", req |-> NoRequest, found |-> {}, ghost |-> NoGhost]

Headers == {NoHeader, BogusToken} \cup {u.accessToken : u \in users}

UserCreateFailed ==
    IF revision = "server.js" THEN "Could not create user, username already exists"
    ELSE "Could not create user"
UserNotFound ==
    IF revision = "server.js" THEN "User not found, incorrect username or password"
    ELSE "User not found"

-----------------------------------------------------------------------------
Init ==
    /\ revision \in Revisions
    /\ strictQuery \in (IF revision = "server.js" THEN BOOLEAN ELSE {FALSE})
    /\ users = {}
    /\ locations = {}
    /\ nextLocId = 0
    /\ inflight = [s \in Slots |-> Idle]
    /\ last = Unanswered(NoRequest, NoGhost)
    /\ registered = {}
    /\ created = {}
    /\ deleted = {}

StoreUnchanged == UNCHANGED <<users, locations, nextLocId, registered, created, deleted>>
BuildUnchanged == UNCHANGED <<revision, strictQuery>>

(* POST /signup                                                            *)
Signup(username, password) ==
    LET req == Request("signup", NoHeader, username, password, 0, EmptyBody) IN
    /\ BuildUnchanged
    /\ UNCHANGED <<locations, nextLocId, inflight, created, deleted>>
    /\ IF password = Missing
       THEN \* password.length throws inside the try
            /\ last' = Answer(req, 400, FALSE, "response", Message(UserCreateFailed), NoGhost)
            /\ UNCHANGED <<users, registered>>
       ELSE IF PasswordTooShort(password)
       THEN /\ last' = Answer(req, 400, FALSE, "response",
                              Message("Password must be minimum 8 characters"), NoGhost)
            /\ UNCHANGED <<users, registered>>
       ELSE IF username = Missing \/ UsernameTaken(username)
       THEN \* required / unique validation rejects the save
            /\ last' = Answer(req, 400, FALSE, "response", Message(UserCreateFailed), NoGhost)
            /\ UNCHANGED <<users, registered>>
       ELSE \E salt \in Salts :
              LET n == Cardinality(users) + 1
                  newUser == [_id |-> n, username |-> username,
                              password |-> HashSync(password, salt),
                              accessToken |-> RandomToken(n)]
              IN /\ users' = users \cup {newUser}
                 /\ last' = Answer(req, 201, TRUE, "response", UserBody(newUser), NoGhost)
                 /\ registered' = registered \cup
                       {[username |-> username, password |-> password,
                         accessToken |-> newUser.accessToken, id |-> newUser._id]}

(* POST /signin                                                            *)
Signin(username, password) ==
    LET req == Request("signin", NoHeader, username, password, 0, EmptyBody)
        found == FindUserByUsername(username)
    IN
    /\ BuildUnchanged /\ StoreUnchanged /\ UNCHANGED inflight
    /\ IF found = {}
       THEN last' = Answer(req, 200, FALSE, "response", Message(UserNotFound), NoGhost)
       ELSE \E user \in found :
              IF password = Missing
              THEN \* bcrypt.compareSync throws on a missing password
                   last' = Answer(req, 400, FALSE, "response", ErrorBody, NoGhost)
              ELSE IF CompareSync(password, user.password)
              THEN last' = Answer(req, 200, TRUE, "response", UserBody(user), NoGhost)
              ELSE last' = Answer(req, 200, FALSE, "response", Message(UserNotFound), NoGhost)

(* authenticateUser: the gate in front of a route                           *)
Authenticated(header) == FindUserByToken(header) # {}

Denied(req) ==
    Answer(req, 401, FALSE, "response", Message("Access denied, please sign in."), NoGhost)

ServerRevision == revision = "server.js"

(* what the handler knows once the gate and its own user lookup are done   *)
Entered(req, user) ==
    [NoGhost EXCEPT !.ran = TRUE, !.caller = {user._id},
                    !.target = {l \in locations : l._id = req.id},
                    !.gone = req.id \in deleted]

Called(req, user) == [Entered(req, user) EXCEPT !.touched = TRUE]

(* GET /locations (server.js)                                              *)
ListLocations(header) ==
    LET req == Request("list", header, Missing, Missing, 0, EmptyBody) IN
    /\ ServerRevision
    /\ BuildUnchanged /\ StoreUnchanged /\ UNCHANGED inflight
    /\ IF ~Authenticated(header)
       THEN last' = Denied(req)
       ELSE \E user \in FindUserByToken(header) :
              last' = Answer(req, 200, TRUE, "response",
                             ListBody(SortedLocations(FindByOwner(user._id))),
                             Called(req, user))

(* POST /locations (server.js)                                             *)
CreateLocation(header, body) ==
    LET req == Request("create", header, Missing, Missing, 0, body) IN
    /\ ServerRevision
    /\ BuildUnchanged /\ UNCHANGED <<users, registered, inflight, deleted>>
    /\ IF ~Authenticated(header)
       THEN /\ last' = Denied(req)
            /\ UNCHANGED <<locations, nextLocId, created>>
       ELSE \E user \in FindUserByToken(header) :
              IF ~SchemaValid(body)
              THEN \* save() rejects with a ValidationError before any write
                   /\ last' = Answer(req, 400, FALSE, "respone", ErrorBody,
                                     Entered(req, user))
                   /\ UNCHANGED <<locations, nextLocId, created>>
              ELSE /\ nextLocId < MaxLocations
                   /\ \E now \in Now :
                        LET newLocation ==
                              [_id |-> nextLocId + 1, title |-> body.title,
                               location |-> body.location, tag |-> body.tag,
                               createdAt |-> now, user |-> user._id]
                        IN /\ locations' = locations \cup {newLocation}
                           /\ nextLocId' = nextLocId + 1
                           /\ created' = created \cup
                                 {[id |-> newLocation._id, user |-> user._id]}
                           /\ last' = Answer(req, 200, TRUE, "response",
                                             DocBody(newLocation), Called(req, user))

NotFound(req, g) ==
    Answer(req, 404, FALSE, "response", Message("Location not found"), g)

(* await theLocation.remove() and the 201 answer                           *)
Remove(req, g, theLocation) ==
    LET hit == {l \in locations : l._id = theLocation._id} IN
    /\ locations' = locations \ hit
    /\ deleted' = deleted \cup {l._id : l \in hit}
    /\ last' = Answer(req, 201, TRUE, "response", DocBody(theLocation),
                      [g EXCEPT !.removed = hit])

(* Location.findByIdAndUpdate(id, {title, location, tag}, {new: true})     *)
Updated(l, body) ==
    [l EXCEPT !.title = body.title, !.location = body.location, !.tag = body.tag]

(* await Location.findByIdAndUpdate(...) and the answer                    *)
Update(req, g) ==
    LET hit == {l \in locations : l._id = req.id} IN
    IF ~IsObjectId(req.id)
    THEN \* CastError, caught
         /\ last' = Answer(req, 400, FALSE, "response", ErrorBody, g)
         /\ UNCHANGED locations
    ELSE IF hit = {}
    THEN /\ last' = Answer(req, 201, TRUE, "response", NullBody, g)
         /\ UNCHANGED locations
    ELSE \E l \in hit :
           /\ locations' = (locations \ {l}) \cup {Updated(l, req.body)}
           /\ last' = Answer(req, 201, TRUE, "response", DocBody(Updated(l, req.body)),
                             [g EXCEPT !.removed = {l}])

(* DELETE /locations/:id (server.js), run to completion                    *)
DeleteLocation(header, id) ==
    LET req == Request("delete", header, Missing, Missing, id, EmptyBody) IN
    /\ ServerRevision
    /\ BuildUnchanged /\ UNCHANGED <<users, registered, nextLocId, created, inflight>>
    /\ IF ~Authenticated(header)
       THEN last' = Denied(req) /\ UNCHANGED <<locations, deleted>>
       ELSE \E user \in FindUserByToken(header) :
              IF FindOwned(id, user._id) = {}
              THEN last' = NotFound(req, Called(req, user)) /\ UNCHANGED <<locations, deleted>>
              ELSE \E theLocation \in FindOwned(id, user._id) :
                     Remove(req, Called(req, user), theLocation)

(* PATCH /locations/:id/edit (server.js), run to completion                *)
EditLocation(header, id, body) ==
    LET req == Request("edit", header, Missing, Missing, id, body) IN
    /\ ServerRevision
    /\ BuildUnchanged
    /\ UNCHANGED <<users, registered, nextLocId, created, deleted, inflight>>
    /\ IF ~Authenticated(header)
       THEN last' = Denied(req) /\ UNCHANGED locations
       ELSE \E user \in FindUserByToken(header) :
              IF FindOwned(id, user._id) = {}
              THEN last' = NotFound(req, Called(req, user)) /\ UNCHANGED locations
              ELSE Update(req, Called(req, user))

-----------------------------------------------------------------------------
(* The same two handlers, one store round trip at a time                   *)
Suspended(pc, req, found, g) == [pc |-> pc, req |-> req, found |-> found, ghost |-> g]

FreeSlot(s) == inflight[s].pc = "idle" /\ \A t \in Slots : t < s => inflight[t].pc # "idle"

(* DELETE: the gate, the user lookup and Location.findOne({id, user})      *)
DeleteLookup(header, id) ==
    LET req == Request("delete", header, Missing, Missing, id, EmptyBody) IN
    /\ ServerRevision
    /\ BuildUnchanged /\ StoreUnchanged
    /\ IF ~Authenticated(header)
       THEN last' = Denied(req) /\ UNCHANGED inflight
       ELSE \E user \in FindUserByToken(header) :
              IF FindOwned(id, user._id) = {}
              THEN last' = NotFound(req, Called(req, user)) /\ UNCHANGED inflight
              ELSE \E theLocation \in FindOwned(id, user._id), s \in Slots :
                     /\ FreeSlot(s)
                     /\ inflight' = [inflight EXCEPT ![s] =
                           Suspended("remove", req, {theLocation}, Called(req, user))]
                     /\ UNCHANGED last

DeleteRemove(s) ==
    /\ inflight[s].pc = "remove"
    /\ BuildUnchanged /\ UNCHANGED <<users, registered, nextLocId, created>>
    /\ \E theLocation \in inflight[s].found :
         Remove(inflight[s].req, inflight[s].ghost, theLocation)
    /\ inflight' = [inflight EXCEPT ![s] = Idle]

(* PATCH: the gate, the user lookup and Location.findOne({id, user})       *)
EditLookup(header, id, body) ==
    LET req == Request("edit", header, Missing, Missing, id, body) IN
    /\ ServerRevision
    /\ BuildUnchanged /\ StoreUnchanged
    /\ IF ~Authenticated(header)
       THEN last' = Denied(req) /\ UNCHANGED inflight
       ELSE \E user \in FindUserByToken(header) :
              IF FindOwned(id, user._id) = {}
              THEN last' = NotFound(req, Called(req, user)) /\ UNCHANGED inflight
              ELSE \E s \in Slots :
                     /\ FreeSlot(s)
                     /\ inflight' = [inflight EXCEPT ![s] =
                           Suspended("update", req, {}, Called(req, user))]
                     /\ UNCHANGED last

EditUpdate(s) ==
    /\ inflight[s].pc = "update"
    /\ BuildUnchanged /\ UNCHANGED <<users, registered, nextLocId, created, deleted>>
    /\ Update(inflight[s].req, inflight[s].ghost)
    /\ inflight' = [inflight EXCEPT ![s] = Idle]

-----------------------------------------------------------------------------
(* The earlier revision, src/unnamed/part_000                              *)
EarlierRevision == revision = "part_000"

(* GET /locations (part_000): the gate attaches req.user                   *)
ListLocations0(header) ==
    LET req == Request("list", header, Missing, Missing, 0, EmptyBody) IN
    /\ EarlierRevision
    /\ BuildUnchanged /\ StoreUnchanged /\ UNCHANGED inflight
    /\ IF ~Authenticated(header)
       THEN last' = Denied(req)
       ELSE \E user \in FindUserByToken(header) :
              last' = Answer(req, 200, TRUE, "response",
                             ListBody(SortedLocations(FindByOwner(user._id))),
                             Called(req, user))

(* POST /locations (part_000): no gate on the route, so req.user is        *)
(* undefined and `const { user } = req.user` throws before the try: the    *)
(* async handler's promise is rejected and nothing answers the request.    *)
CreateLocation0(header, body) ==
    LET req == Request("create", header, Missing, Missing, 0, body) IN
    /\ EarlierRevision
    /\ BuildUnchanged /\ StoreUnchanged /\ UNCHANGED inflight
    /\ last' = Unanswered(req, [NoGhost EXCEPT !.ran = TRUE])

Ungated(id) ==
    [NoGhost EXCEPT !.ran = TRUE, !.touched = TRUE,
                    !.target = {l \in locations : l._id = id},
                    !.gone = id \in deleted]

(* DELETE /locations/:id (part_000): findByIdAndRemove(id), no gate        *)
DeleteLocation0(header, id) ==
    LET req == Request("delete", header, Missing, Missing, id, EmptyBody)
        hit == {l \in locations : l._id = id}
    IN
    /\ EarlierRevision
    /\ BuildUnchanged /\ UNCHANGED <<users, registered, nextLocId, created, inflight>>
    /\ IF ~IsObjectId(id)
       THEN /\ last' = Answer(req, 400, FALSE, "response", ErrorBody, Ungated(id))
            /\ UNCHANGED <<locations, deleted>>
       ELSE IF hit = {}
       THEN /\ last' = Answer(req, 201, TRUE, "response", NullBody, Ungated(id))
            /\ UNCHANGED <<locations, deleted>>
       ELSE \E l \in hit :
              /\ locations' = locations \ {l}
              /\ deleted' = deleted \cup {l._id}
              /\ last' = Answer(req, 201, TRUE, "response", DocBody(l),
                                [Ungated(id) EXCEPT !.removed = {l}])

(* PATCH /locations/:id/edit (part_000): findByIdAndUpdate(id), no gate    *)
EditLocation0(header, id, body) ==
    LET req == Request("edit", header, Missing, Missing, id, body) IN
    /\ EarlierRevision
    /\ BuildUnchanged
    /\ UNCHANGED <<users, registered, nextLocId, created, deleted, inflight>>
    /\ Update(req, Ungated(id))

-----------------------------------------------------------------------------
(* A store round trip throws: the catch of the handler that awaited it     *)
Faulted(g) == [g EXCEPT !.fault = TRUE]

(* new User(...).save() rejects for a reason other than validation         *)
SignupStoreFails(username, password) ==
    LET req == Request("signup", NoHeader, username, password, 0, EmptyBody) IN
    /\ password # Missing /\ ~PasswordTooShort(password)
    /\ BuildUnchanged /\ StoreUnchanged /\ UNCHANGED inflight
    /\ last' = Answer(req, 400, FALSE, "response", Message(UserCreateFailed),
                      Faulted(NoGhost))

(* User.findOne({ username }) rejects                                      *)
SigninStoreFails(username, password) ==
    LET req == Request("signin", NoHeader, username, password, 0, EmptyBody) IN
    /\ BuildUnchanged /\ StoreUnchanged /\ UNCHANGED inflight
    /\ last' = Answer(req, 400, FALSE, "response", ErrorBody, Faulted(NoGhost))

Gated(route) == ServerRevision \/ route = "list"

(* authenticateUser: User.findOne({ accessToken }) rejects                 *)
GateStoreFails(route, header, id, body) ==
    LET req == Request(route, header, Missing, Missing, id, body) IN
    /\ Gated(route)
    /\ BuildUnchanged /\ StoreUnchanged /\ UNCHANGED inflight
    /\ last' = Answer(req, 400, FALSE, "response", ErrorBody, Faulted(NoGhost))

CatchKey(route) == IF route \in {"list", "create"} THEN "respone" ELSE "response"

(* a round trip awaited inside the handler's try rejects before any write  *)
HandlerStoreFails(route, header, id, body, touched) ==
    LET req == Request(route, header, Missing, Missing, id, body) IN
    /\ Gated(route) => Authenticated(header)
    /\ EarlierRevision => route # "create"
    /\ EarlierRevision => touched
    /\ BuildUnchanged /\ StoreUnchanged /\ UNCHANGED inflight
    /\ last' = Answer(req, 400, FALSE, CatchKey(route), ErrorBody,
                      Faulted([NoGhost EXCEPT !.ran = TRUE, !.touched = touched,
                                 !.caller = IF Gated(route)
                                            THEN {u._id : u \in FindUserByToken(header)}
                                            ELSE {}]))

-----------------------------------------------------------------------------
Anonymous == {NoHeader, BogusToken}
Tokens == {u.accessToken : u \in users}

(* The request inputs.  A request that carries no valid token is answered  *)
(* by the gate before its :id or body is read, so one :id and one body     *)
(* stand for all of them.                                                  *)
Credentials ==
    (Usernames \X Passwords) \cup {<<Missing, "password">>, <<"alice", Missing>>}
CreateRequests == (Tokens \X CreateBodies) \cup (Anonymous \X {Park})
DeleteRequests == (Tokens \X RequestIds) \cup (Anonymous \X {1})
EditRequests == (Tokens \X RequestIds \X EditBodies) \cup (Anonymous \X {1} \X {Cafe})

Next ==
    \/ \E c \in Credentials : Signup(c[1], c[2])
    \/ \E c \in Credentials : Signin(c[1], c[2])
    \/ \E h \in Headers : ListLocations(h)
    \/ \E r \in CreateRequests : CreateLocation(r[1], r[2])
    \/ \E r \in DeleteRequests : DeleteLocation(r[1], r[2])
    \/ \E r \in EditRequests : EditLocation(r[1], r[2], r[3])
    \/ \E h \in Headers : ListLocations0(h)
    \/ \E r \in CreateRequests : CreateLocation0(r[1], r[2])
    \/ \E r \in DeleteRequests : DeleteLocation0(r[1], r[2])
    \/ \E r \in EditRequests : EditLocation0(r[1], r[2], r[3])

Spec == Init /\ [][Next]_vars

(* a failing round trip answers before the :id or body matters             *)
FaultRequests ==
    ({"list"} \X Headers \X {0} \X {EmptyBody})
    \cup ({"create"} \X Headers \X {0} \X {Park})
    \cup ({"delete"} \X Headers \X {1} \X {EmptyBody})
    \cup ({"edit"} \X Headers \X {1} \X {Cafe})

NextFaults ==
    \/ Next
    \/ \E c \in Credentials : SignupStoreFails(c[1], c[2])
    \/ \E c \in Credentials : SigninStoreFails(c[1], c[2])
    \/ \E r \in FaultRequests : GateStoreFails(r[1], r[2], r[3], r[4])
    \/ \E r \in FaultRequests, touched \in BOOLEAN :
          HandlerStoreFails(r[1], r[2], r[3], r[4], touched)

SpecFaults == Init /\ [][NextFaults]_vars

(* The account routes alone, with their store failures                     *)
NextAccounts ==
    \/ \E c \in Credentials : Signup(c[1], c[2])
    \/ \E c \in Credentials : Signin(c[1], c[2])
    \/ \E c \in Credentials : SignupStoreFails(c[1], c[2])
    \/ \E c \in Credentials : SigninStoreFails(c[1], c[2])

SpecAccounts == Init /\ [][NextAccounts]_vars

(* The owner's requests: one user registers, creates Locations and edits   *)
(* and deletes them in overlapping requests.                               *)
Owner == "alice"
OwnerPassword == "password"
OwnerHeaders == {u.accessToken : u \in users}

NextConcurrent ==
    \/ Signup(Owner, OwnerPassword)
    \/ \E h \in OwnerHeaders : CreateLocation(h, Park)
    \/ \E h \in OwnerHeaders, id \in LocationIds : DeleteLookup(h, id)
    \/ \E s \in Slots : DeleteRemove(s)
    \/ \E h \in OwnerHeaders, id \in LocationIds : EditLookup(h, id, Cafe)
    \/ \E s \in Slots : EditUpdate(s)

SpecConcurrent == Init /\ [][NextConcurrent]_vars

-----------------------------------------------------------------------------
(* Properties                                                              *)
LocationRoutes == {"list", "create", "delete", "edit"}
Items == last.body.items
ItemIds == {Items[i]._id : i \in 1..Len(Items)}
OwnedTarget == last.target # {} /\ \A l \in last.target : l.user \in last.caller
ForeignTarget ==
    last.caller # {} /\ last.target # {} /\ \A l \in last.target : l.user \notin last.caller
ReturnedId(item) == IF ServerRevision THEN item.id ELSE item.userId
Verifies(password, hash) == password # Missing /\ hash.digest = <<hash.salt, password>>

(* C1: an edit or delete of user A's Location carrying user B's token is   *)
(* answered 404 and changes no Location.                                   *)
C1_CrossUserIsolation ==
    (ServerRevision /\ last.req.route \in {"edit", "delete"} /\ ForeignTarget)
        => /\ last.status = 404
           /\ last.removed = {}
           /\ last.target \subseteq locations

(* C2: a request to a location route of server.js whose Authorization      *)
(* header is no stored user's accessToken is answered 401, the handler     *)
(* behind the gate does not run and the Location model is not called.      *)
C2_GateStopsUnauthenticated ==
    (ServerRevision /\ last.req.route \in LocationRoutes
        /\ last.req.header \notin {u.accessToken : u \in users})
        => /\ last.status = 401 /\ ~last.success /\ last.nresp = 1
           /\ ~last.ran /\ ~last.touched /\ last.removed = {}

C2_Witness ==
    /\ ServerRevision /\ last.req.route = "edit" /\ last.req.header = NoHeader
    /\ last.status = 401 /\ locations # {} /\ ~last.ran

(* C3: an edit of an existing Location by its owner answers 201 with the   *)
(* updated record; the store and the owner's list then hold the Location   *)
(* with the new title, location and tag and its old id, owner, createdAt.  *)
C3_OwnerEditRoundTrip ==
    (ServerRevision /\ last.req.route = "edit" /\ OwnedTarget)
        => /\ last.status = 201 /\ last.success
           /\ \E l \in last.target :
                LET new == [_id |-> l._id, title |-> last.req.body.title,
                            location |-> last.req.body.location,
                            tag |-> last.req.body.tag,
                            createdAt |-> l.createdAt, user |-> l.user]
                    list == SortedLocations(FindByOwner(l.user))
                IN /\ last.body = DocBody(new)
                   /\ new \in locations
                   /\ \E i \in 1..Len(list) : list[i] = new
                   /\ \A i \in 1..Len(list) : list[i]._id = l._id => list[i] = new

(* C4: a delete of an existing Location by its owner answers 201 with the  *)
(* Location as it was, removes exactly that Location; a delete whose id    *)
(* names no Location of the caller answers 404 and removes nothing.        *)
C4_OwnerDelete ==
    (ServerRevision /\ last.req.route = "delete" /\ last.caller # {})
        => IF OwnedTarget
           THEN /\ last.status = 201 /\ last.success
                /\ \E l \in last.target : last.body = DocBody(l)
                /\ last.removed = last.target
                /\ \A l \in locations : l._id # last.req.id
           ELSE last.status = 404 /\ last.removed = {}

(* C5: every registration that succeeded is still stored as it was         *)
(* returned, and a signin with a registered username and password answers  *)
(* 200, success, with the accessToken and id the registration returned.    *)
C5_SigninAfterSignup ==
    /\ \A r \in registered : \E u \in users :
          /\ u._id = r.id /\ u.username = r.username
          /\ u.accessToken = r.accessToken
          /\ Verifies(r.password, u.password)
    /\ (last.req.route = "signin"
          /\ \E r \in registered : r.username = last.req.username
                                   /\ r.password = last.req.password)
        => /\ last.status = 200 /\ last.success /\ last.body.kind = "user"
           /\ \A r \in registered :
                (r.username = last.req.username /\ r.password = last.req.password)
                  => /\ Items[1].accessToken = r.accessToken
                     /\ ReturnedId(Items[1]) = r.id
                     /\ Items[1].username = r.username

C5_Witness ==
    /\ last.req.route = "signin" /\ last.status = 200 /\ last.success
    /\ Cardinality(users) = 2 /\ locations # {} /\ deleted # {}
    /\ Items[1].accessToken = RandomToken(1)

(* C6: list with A's token answers 200 with exactly the Locations created  *)
(* with A's token and not removed since, newest first, and writes          *)
(* nothing; a list that follows a list of the same user returns the same   *)
(* sequence.                                                               *)
C6_ListContents ==
    (ServerRevision /\ last.req.route = "list"
        /\ last.req.header \in {u.accessToken : u \in users})
        => /\ last.status = 200 /\ last.success /\ last.body.kind = "list"
           /\ \E u \in users :
                /\ u.accessToken = last.req.header
                /\ ItemIds = {c.id : c \in {d \in created : d.user = u._id}} \ deleted
                /\ \A i \in 1..Len(Items) : Items[i] \in locations /\ Items[i].user = u._id
           /\ Len(Items) = Cardinality(ItemIds)
           /\ \A i, j \in 1..Len(Items) :
                i < j => Items[i].createdAt >= Items[j].createdAt
           /\ last.removed = {}

C6_ListStep ==
    (ServerRevision /\ last'.req.route = "list")
        => /\ locations' = locations
           /\ (last.req.route = "list" /\ last.req.header = last'.req.header)
                => last'.body = last.body

C6_ListIsOwnedSortedReadOnly == []C6_ListContents /\ [][C6_ListStep]_vars

C6_Witness ==
    /\ ServerRevision /\ last.req.route = "list" /\ last.status = 200
    /\ Cardinality(users) = 2 /\ Cardinality(locations) = 2
    /\ Len(Items) = 2 /\ Items[1]._id = 2 /\ Items[2]._id = 1
    /\ Items[1].createdAt > Items[2].createdAt

(* C7: a signup whose password is shorter than 8 characters answers 400,   *)
(* success false, and leaves the users collection as it was.               *)
ShortPasswordSignup(r) ==
    r.req.route = "signup" /\ r.req.password # Missing /\ Len(r.req.password) < 8

C7_ShortPasswordAnswer ==
    ShortPasswordSignup(last)
        => /\ last.status = 400 /\ ~last.success
           /\ last.body = Message("Password must be minimum 8 characters")
           /\ \A u \in users : ~Verifies(last.req.password, u.password)

C7_ShortPasswordStep == ShortPasswordSignup(last') => users' = users

C7_ShortPasswordRejected == []C7_ShortPasswordAnswer /\ [][C7_ShortPasswordStep]_vars

C7_Witness ==
    /\ ShortPasswordSignup(last) /\ last.status = 400
    /\ users # {} /\ ~UsernameTaken(last.req.username)

(* C8: a signin whose username matches no user, or whose password the      *)
(* matching user's hash does not verify, answers 200 with success false    *)
(* and no accessToken; 400 is answered only when the store lookup fails.   *)
NoSuchCredentials ==
    \A u \in users : u.username = last.req.username
                        => ~Verifies(last.req.password, u.password)

PasswordMissingForKnownUser ==
    last.req.password = Missing /\ \E u \in users : u.username = last.req.username

C8_SoftFailureAnswer ==
    last.req.route = "signin"
        => /\ (NoSuchCredentials /\ ~last.fault /\ ~PasswordMissingForKnownUser)
                => last.status = 200 /\ ~last.success /\ last.body.kind = "message"
           /\ last.status = 400 => (last.fault \/ PasswordMissingForKnownUser)
           /\ last.status \in {200, 400}
           /\ ~last.success => last.body.kind # "user"

C8_SigninStep ==
    last'.req.route = "signin" => UNCHANGED <<users, locations, registered>>

C9_EveryRequestAnswered == last.req.route # "none" => last.nresp = 1

(* C10: when the owner's edit and delete requests on one Location overlap, *)
(* an edit that answers 201 returns the updated record, a removed Location *)
(* is never stored again, and an edit of a removed Location answers 404.   *)
C10_EditDeleteRace ==
    /\ (ServerRevision /\ last.req.route = "edit" /\ OwnedTarget
          /\ last.status = 201 /\ last.success)
        => last.body.kind = "doc"
    /\ \A l \in locations : l._id \notin deleted
    /\ (ServerRevision /\ last.req.route = "edit" /\ last.gone) => last.status = 404
====
